---- MODULE Spec2Model ----
(***************************************************************************)
(* Model of the xab IPC client: the handshake of IpcHandle::new, the       *)
(* command primitives send_commands / send_recv_command, close and the     *)
(* get_monitors helper (src/src/ipc.rs), with the wire types of            *)
(* src/src/ipc_spec.rs.                                                    *)
(*                                                                         *)
(* 32-bit words are represented by the signed integer that has the same    *)
(* bit pattern (TLC integers are 32 bits wide), so `as u32` / `as i32`     *)
(* casts are the identity on this representation and a byte is 0..255.     *)
(***************************************************************************)
EXTENDS Integers, Sequences, FiniteSets, TLC

VARIABLES
    pcNew,          \* position of IpcHandle::new
    newResult,      \* what IpcHandle::new returned ("none" while running)
    version,        \* <<>> or <<v>>: the server version decoded at ipc.rs:32
    sock,           \* the UnixStream: "none", "open", "shutdown", "dropped"
    capabilities,   \* IpcHandle.capabilities (bits kept by from_bits_truncate)
    newTrace,       \* transport calls made by IpcHandle::new, in order
    inbuf,          \* bytes the server has sent and the client has not read
    locked,         \* whether the futures Mutex around the socket is held
    pc,             \* per caller: position inside the running operation
    op,             \* per caller: the operation called last
    arg,            \* per caller: the command word of the running operation
    guardAt,        \* per caller: where its MutexGuard lives: "none", "fn", "caller"
    res,            \* per caller: result of the last finished operation
    trace,          \* per caller: lock/transport calls of the current operation
    reply,          \* per caller: bytes the server sent for the current exchange
    startedClosed,  \* per caller: the current operation began after close() returned Ok
    closedOk,       \* some close() has returned Ok(())
    exchanges,      \* number of server replies produced so far
    decBytes,       \* decoder runs: the bytes given to Monitor::from_bytes
    decWord,        \* decoder runs: the word given to from_bits_truncate
    decMon,         \* decoder runs: <<>> or <<result of Monitor::from_bytes>>
    decCaps,        \* decoder runs: <<>> or <<result of from_bits_truncate>>
    page,           \* App.page
    user_error,     \* App.user_error is Some(..)
    ipc_handle,     \* App.ipc_handle: 0 for None, else the handle's number
    newTasks,       \* IpcHandle::new tasks started and not yet completed
    closeTasks,     \* close() tasks started and not yet completed
    nHandles,       \* number of handles IpcHandle::new has returned
    closeInvoked,   \* handles a close() task was started for
    viewGated,      \* Connect/Disconnect come only from the buttons of the view
    lastMsg         \* the message update handled last

decVars == <<decBytes, decWord, decMon, decCaps>>

appVars == <<page, user_error, ipc_handle, newTasks, closeTasks, nHandles,
             closeInvoked, viewGated, lastMsg>>

vars == <<pcNew, newResult, version, sock, capabilities, newTrace, inbuf, locked,
          pc, op, arg, guardAt, res, trace, reply, startedClosed, closedOk, exchanges,
          decVars, appVars>>

ipcVars == <<pcNew, newResult, version, sock, capabilities, newTrace, inbuf, locked,
             pc, op, arg, guardAt, res, trace, reply, startedClosed, closedOk,
             exchanges>>

newVars == <<pcNew, newResult, version, capabilities, newTrace>>
callVars == <<pc, op, arg, guardAt, res, trace, reply, startedClosed>>

(***************************************************************************)
(* Bounds and inputs                                                       *)
(***************************************************************************)
MaxExchanges == 1

Callers == {"c1", "c2"}

\* versions a server may announce (read at ipc.rs:27-32)
ServerVersions == {1, 2, -1}

\* capability words a server may announce (read at ipc.rs:59-62)
CapWords == {0, 1, 6}

(***************************************************************************)
(* Wire types (ipc_spec.rs)                                                *)
(***************************************************************************)
IPC_PROTO_VERSION == 1

NoneInvalid == -1
Restart == 1
ClientDisconnect == 3
GetCapabilites == 11
GetMonitors == 9

\* commands the callers of the model pass to send_recv_command
Commands == {NoneInvalid, Restart, GetMonitors}

\* command words the callers of the model pass to send_commands
CommandWords == {Restart}

CustomPositioning == 1
Monitors == 2
\* the flag ipc.rs:119 names; ipc_spec.rs does not define it, the
\* specification's capability bit table puts it at bit 0
Multimonitor == 1

\* i32::to_be_bytes / u32::to_be_bytes
to_be_bytes(w) ==
    << (w \div 16777216) % 256, (w \div 65536) % 256, (w \div 256) % 256, w % 256 >>

\* i32::from_be_bytes / u32::from_be_bytes (same bit pattern)
from_be_bytes(b) ==
    (IF b[1] >= 128 THEN b[1] - 256 ELSE b[1]) * 16777216
        + b[2] * 65536 + b[3] * 256 + b[4]

\* bit k of word w
Bit(w, k) == (w \div (2 ^ k)) % 2

\* bitwise and of a word with a flag mask below 2^8
RECURSIVE BitAnd(_, _, _)
BitAnd(w, m, k) ==
    IF k > 7 THEN 0
    ELSE (IF Bit(w, k) = 1 /\ Bit(m, k) = 1 THEN 2 ^ k ELSE 0) + BitAnd(w, m, k + 1)

\* union of the flags the bitflags! block declares
AllFlags == CustomPositioning + Monitors

\* IpcXabCapabilities::from_bits_retain: unknown bits kept
from_bits_retain(w) == w

\* IpcXabCapabilities::from_bits_truncate
from_bits_truncate(w) == BitAnd(w, AllFlags, 0)

\* a capability test that only asks for a non-empty set (!caps.is_empty())
caps_not_empty(caps, flag) == caps # 0

\* IpcXabCapabilities::contains
contains(caps, flag) == BitAnd(caps, flag, 0) = flag

\* Monitor::fullscreen
fullscreen ==
    [index |-> 0, primary |-> TRUE, x |-> 0, y |-> 0, width |-> 0, height |-> 0]

\* a cursor read that pads a short input with zeros instead of failing
cursor_read_padded(bytes, pos, n) ==
    <<TRUE,
      [k \in 1..n |-> IF pos + k <= Len(bytes) THEN bytes[pos + k] ELSE 0],
      pos + n>>

\* Cursor::read_exact of n bytes at position pos: <<ok, bytes, new position>>
cursor_read_exact(bytes, pos, n) ==
    IF pos + n <= Len(bytes)
    THEN <<TRUE, SubSeq(bytes, pos + 1, pos + n), pos + n>>
    ELSE <<FALSE, <<>>, Len(bytes)>>

\* Monitor::from_bytes: [ok, mon]
from_bytes(bytes) ==
    LET r1 == cursor_read_exact(bytes, 0, 4)
        r2 == cursor_read_exact(bytes, r1[3], 1)
        r3 == cursor_read_exact(bytes, r2[3], 4)
        r4 == cursor_read_exact(bytes, r3[3], 4)
        r5 == cursor_read_exact(bytes, r4[3], 4)
        r6 == cursor_read_exact(bytes, r5[3], 4)
    IN  IF r1[1] /\ r2[1] /\ r3[1] /\ r4[1] /\ r5[1] /\ r6[1]
        THEN [ok |-> TRUE,
              mon |-> [index |-> from_be_bytes(r1[2]),
                       primary |-> r2[2][1] # 0,
                       x |-> from_be_bytes(r3[2]),
                       y |-> from_be_bytes(r4[2]),
                       width |-> from_be_bytes(r5[2]),
                       height |-> from_be_bytes(r6[2])]]
        ELSE [ok |-> FALSE, mon |-> fullscreen]

\* step of the record loop of get_monitors
MonitorStride == 21

\* the filter_map/collect of get_monitors over the offsets i, i+21, ...
RECURSIVE collect_monitors(_, _)
collect_monitors(bytes, i) ==
    IF i >= Len(bytes) THEN <<>>
    ELSE (IF i + 21 <= Len(bytes)
          THEN (LET r == from_bytes(SubSeq(bytes, i + 1, i + 21))
                IN  IF r.ok THEN <<r.mon>> ELSE <<>>)
          ELSE <<>>)
         \o collect_monitors(bytes, i + MonitorStride)

(***************************************************************************)
(* Server side: the payloads a server may send for an exchange             *)
(***************************************************************************)
MonitorBytes(index, primary, x, y, width, height) ==
    to_be_bytes(index) \o <<primary>> \o to_be_bytes(x) \o to_be_bytes(y)
        \o to_be_bytes(width) \o to_be_bytes(height)

Rec0 == MonitorBytes(0, 1, 0, 0, 1920, 1080)
Rec1 == MonitorBytes(1, 0, 1920, 0, 2560, 1440)

Replies == {<<>>, Rec0, Rec0 \o Rec1 \o <<9, 9>>}

(***************************************************************************)
(* Transport                                                               *)
(***************************************************************************)
\* a write_all that may still succeed on a shut-down stream
WriteOutcomesAny == {TRUE, FALSE}

\* outcomes of write_all on the stream: a write to a shut-down stream fails
WriteOutcomes == IF sock = "open" THEN {TRUE, FALSE} ELSE {FALSE}

\* outcomes of shutdown(Both)
ShutdownOutcomes == {TRUE, FALSE}

\* outcomes of read_exact into a buffer of n bytes: an empty buffer is
\* filled without touching the stream
ReadOutcomes(n) ==
    IF n = 0 THEN {TRUE}
    ELSE IF sock = "open" /\ Len(inbuf) >= n THEN {TRUE, FALSE} ELSE {FALSE}

Ev(e, b, ok) == [ev |-> e, bytes |-> b, ok |-> ok]

NoRes == [kind |-> "none", payload |-> <<>>, monitors |-> <<>>]
Res(k) == [kind |-> k, payload |-> <<>>, monitors |-> <<>>]

(***************************************************************************)
(* IpcHandle::new                                                          *)
(***************************************************************************)
IpcInit ==
    /\ pcNew = "connect"
    /\ newResult = "none"
    /\ version = <<>>
    /\ sock = "none"
    /\ capabilities = 0
    /\ newTrace = <<>>
    /\ inbuf = <<>>
    /\ locked = FALSE
    /\ pc = [c \in Callers |-> "idle"]
    /\ op = [c \in Callers |-> "none"]
    /\ arg = [c \in Callers |-> 0]
    /\ guardAt = [c \in Callers |-> "none"]
    /\ res = [c \in Callers |-> NoRes]
    /\ trace = [c \in Callers |-> <<>>]
    /\ reply = [c \in Callers |-> <<>>]
    /\ startedClosed = [c \in Callers |-> FALSE]
    /\ closedOk = FALSE
    /\ exchanges = 0

\* no decoder run is set up
DecIdle ==
    /\ decBytes = <<>>
    /\ decWord = 0
    /\ decMon = <<>>
    /\ decCaps = <<>>

\* App::default()
AppDefault ==
    /\ page = "Connect"
    /\ user_error = FALSE
    /\ ipc_handle = 0
    /\ newTasks = 0
    /\ closeTasks = 0
    /\ nHandles = 0
    /\ closeInvoked = {}
    /\ lastMsg = "none"

Init ==
    /\ IpcInit
    /\ DecIdle
    /\ AppDefault
    /\ viewGated = TRUE

\* new returns Err(e): the local socket, if any, is dropped
NewFail(e) ==
    /\ pcNew' = "done"
    /\ newResult' = e
    /\ sock' = IF sock = "none" THEN "none" ELSE "dropped"

\* UnixStream::connect(path)?
NewConnect ==
    /\ pcNew = "connect"
    /\ \E ok \in {TRUE, FALSE} :
        IF ok
        THEN /\ pcNew' = "read_version"
             /\ sock' = "open"
             /\ UNCHANGED newResult
        ELSE NewFail("ErrConnect")
    /\ UNCHANGED <<version, capabilities, newTrace, inbuf, locked, callVars, decVars, appVars,
                   closedOk, exchanges>>

\* socket.read_exact(&mut buf)?; version = i32::from_be_bytes(buf)
NewReadVersion ==
    /\ pcNew = "read_version"
    /\ \E ok \in {TRUE, FALSE}, v \in ServerVersions :
        IF ok
        THEN /\ version' = <<from_be_bytes(to_be_bytes(v))>>
             /\ newTrace' = Append(newTrace, Ev("read", to_be_bytes(v), TRUE))
             /\ pcNew' = "write_version"
             /\ UNCHANGED <<newResult, sock>>
        ELSE /\ newTrace' = Append(newTrace, Ev("read", <<>>, FALSE))
             /\ NewFail("ErrReadVersion")
             /\ UNCHANGED version
    /\ UNCHANGED <<capabilities, inbuf, locked, callVars, decVars, appVars, closedOk, exchanges>>

\* a handshake that echoes the version it has just read
VersionEchoed(v) == v

\* buf = IPC_PROTO_VERSION.to_be_bytes(): the word sent back, whatever v was read
VersionToSend(v) == IPC_PROTO_VERSION

\* socket.write_all(&buf)?
NewWriteVersion ==
    /\ pcNew = "write_version"
    /\ \E ok \in WriteOutcomes :
        /\ newTrace' = Append(newTrace, Ev("write", to_be_bytes(VersionToSend(version[1])), ok))
        /\ IF ok
           THEN /\ pcNew' = "check_version"
                /\ UNCHANGED <<newResult, sock>>
           ELSE NewFail("ErrWriteVersion")
    /\ UNCHANGED <<version, capabilities, inbuf, locked, callVars, decVars, appVars, closedOk, exchanges>>

\* a test that rejects only servers newer than the client
VersionNewer(v) == v > IPC_PROTO_VERSION

\* the test `version != IPC_PROTO_VERSION`
VersionMismatch(v) == v # IPC_PROTO_VERSION

\* if version != IPC_PROTO_VERSION { socket.shutdown(Both)?; return Err(..) }
NewCheckVersion ==
    /\ pcNew = "check_version"
    /\ IF VersionMismatch(version[1])
       THEN \E ok \in ShutdownOutcomes :
              /\ newTrace' = Append(newTrace, Ev("shutdown", <<>>, ok))
              /\ NewFail(IF ok THEN "ErrMismatch" ELSE "ErrShutdown")
       ELSE /\ pcNew' = "read_caps"
            /\ UNCHANGED <<newResult, sock, newTrace>>
    /\ UNCHANGED <<version, capabilities, inbuf, locked, callVars, decVars, appVars, closedOk, exchanges>>

\* socket.read_exact(&mut buf)?; from_bits_truncate(u32::from_be_bytes(buf)); Ok(Self{..})
NewReadCaps ==
    /\ pcNew = "read_caps"
    /\ \E ok \in {TRUE, FALSE}, w \in CapWords :
        IF ok
        THEN /\ capabilities' = from_bits_truncate(from_be_bytes(to_be_bytes(w)))
             /\ newTrace' = Append(newTrace, Ev("read", to_be_bytes(w), TRUE))
             /\ pcNew' = "done"
             /\ newResult' = "Ok"
             /\ UNCHANGED sock
        ELSE /\ newTrace' = Append(newTrace, Ev("read", <<>>, FALSE))
             /\ NewFail("ErrReadCaps")
             /\ UNCHANGED capabilities
    /\ UNCHANGED <<version, inbuf, locked, callVars, decVars, appVars, closedOk, exchanges>>

(***************************************************************************)
(* Operations on a returned handle, one caller per element of Callers      *)
(***************************************************************************)
\* a handle exists only when new returned Ok(Self{..})
HandleOpen == pcNew = "done" /\ newResult = "Ok"

CanCall(c) == HandleOpen /\ pc[c] = "idle"

\* a lock that is granted whether or not a guard is alive
LockAlways == TRUE

\* self.socket.lock().await resolves only while no guard is alive
LockAvailable == ~locked

\* a send_commands that locks whatever guard it is given
AlwaysLock(guardIsSome) == "sc_lock"

\* the `if let Some(guard) = guard { guard } else { self.socket.lock().await }`
\* of send_commands: where it continues
GuardOrLock(guardIsSome) == IF guardIsSome THEN "sc_write" ELSE "sc_lock"

\* close() passing None, so that send_commands locks again
CloseGuardNone == FALSE

\* close() passes Some(socket) to send_commands
CloseGuard == TRUE

\* length of the buffer BytesMut::new() hands to read_exact
BytesMutNewLen == 0

\* an operation begins: per-call bookkeeping
Begin(c, o, a) ==
    /\ op' = [op EXCEPT ![c] = o]
    /\ arg' = [arg EXCEPT ![c] = a]
    /\ trace' = [trace EXCEPT ![c] = <<>>]
    /\ reply' = [reply EXCEPT ![c] = <<>>]
    /\ startedClosed' = [startedClosed EXCEPT ![c] = closedOk]

\* a guard that is leaked instead of dropped
KeepFnGuard(c) == UNCHANGED <<locked, guardAt>>

\* the guard held by the running function goes out of scope
DropFnGuard(c) ==
    /\ locked' = FALSE
    /\ guardAt' = [guardAt EXCEPT ![c] = "none"]

\* what get_monitors makes of the result of send_recv_command:
\* .unwrap().unwrap() and the record loop
gm_result(r) ==
    IF r.kind = "Some"
    THEN [kind |-> "List", payload |-> <<>>,
          monitors |-> collect_monitors(r.payload, 0)]
    ELSE Res("Panic")

\* send_recv_command returns r, to its caller or into get_monitors
Finish(c, r) ==
    IF op[c] = "get_monitors"
    THEN /\ res' = [res EXCEPT ![c] = gm_result(r)]
         /\ pc' = [pc EXCEPT ![c] = IF gm_result(r).kind = "Panic"
                                    THEN "panicked" ELSE "idle"]
    ELSE /\ res' = [res EXCEPT ![c] = r]
         /\ pc' = [pc EXCEPT ![c] = "idle"]

\* send_commands(commands, guard) is called; pass: the caller hands over its guard
CallSendCommands(c, commands, pass) ==
    /\ CanCall(c)
    /\ pass => guardAt[c] = "caller"
    /\ Begin(c, "send_commands", commands)
    /\ pc' = [pc EXCEPT ![c] = GuardOrLock(pass)]
    /\ guardAt' = [guardAt EXCEPT ![c] = IF pass THEN "fn" ELSE @]
    /\ UNCHANGED <<decVars, appVars, newVars, sock, inbuf, locked, res, closedOk, exchanges>>

\* self.socket.lock().await inside send_commands
ScLock(c) ==
    /\ pc[c] = "sc_lock"
    /\ LockAvailable
    /\ locked' = TRUE
    /\ guardAt' = [guardAt EXCEPT ![c] = "fn"]
    /\ trace' = [trace EXCEPT ![c] = Append(@, Ev("lock", <<>>, TRUE))]
    /\ pc' = [pc EXCEPT ![c] = "sc_write"]
    /\ UNCHANGED <<decVars, appVars, newVars, sock, inbuf, op, arg, res, reply, startedClosed,
                   closedOk, exchanges>>

\* socket.write_all(&commands.to_be_bytes())?; Ok(socket)
\* inside close the returned guard goes on to the shutdown
ScWrite(c) ==
    /\ pc[c] = "sc_write"
    /\ \E ok \in WriteOutcomes :
        /\ trace' = [trace EXCEPT ![c] = Append(@, Ev("write", to_be_bytes(arg[c]), ok))]
        /\ IF ok
           THEN IF op[c] = "close"
                THEN /\ pc' = [pc EXCEPT ![c] = "close_shutdown"]
                     /\ UNCHANGED <<res, guardAt, locked>>
                ELSE /\ pc' = [pc EXCEPT ![c] = "idle"]
                     /\ res' = [res EXCEPT ![c] = Res("OkGuard")]
                     /\ guardAt' = [guardAt EXCEPT ![c] = "caller"]
                     /\ UNCHANGED locked
           ELSE /\ pc' = [pc EXCEPT ![c] = "idle"]
                /\ res' = [res EXCEPT ![c] = Res("Err")]
                /\ DropFnGuard(c)
    /\ UNCHANGED <<decVars, appVars, newVars, sock, inbuf, op, arg, reply, startedClosed,
                   closedOk, exchanges>>

\* the caller drops the guard send_commands returned
DropGuard(c) ==
    /\ pc[c] = "idle"
    /\ guardAt[c] = "caller"
    /\ DropFnGuard(c)
    /\ UNCHANGED <<decVars, appVars, newVars, sock, inbuf, pc, op, arg, res, trace, reply,
                   startedClosed, closedOk, exchanges>>

\* send_recv_command(command) is called
CallSendRecv(c, command) ==
    /\ CanCall(c)
    /\ exchanges < MaxExchanges
    /\ Begin(c, "send_recv_command", command)
    /\ pc' = [pc EXCEPT ![c] = "srr_lock"]
    /\ UNCHANGED <<decVars, appVars, newVars, sock, inbuf, locked, guardAt, res, closedOk, exchanges>>

\* let mut socket = self.socket.lock().await
SrrLock(c) ==
    /\ pc[c] = "srr_lock"
    /\ LockAvailable
    /\ locked' = TRUE
    /\ guardAt' = [guardAt EXCEPT ![c] = "fn"]
    /\ trace' = [trace EXCEPT ![c] = Append(@, Ev("lock", <<>>, TRUE))]
    /\ pc' = [pc EXCEPT ![c] = "srr_write"]
    /\ UNCHANGED <<decVars, appVars, newVars, sock, inbuf, op, arg, res, reply, startedClosed,
                   closedOk, exchanges>>

\* socket.write_all(&(command as i32).to_be_bytes())?
\* a delivered command word makes the server send its reply r
SrrWrite(c) ==
    /\ pc[c] = "srr_write"
    /\ \E ok \in WriteOutcomes, r \in Replies :
        /\ trace' = [trace EXCEPT ![c] = Append(@, Ev("write", to_be_bytes(arg[c]), ok))]
        /\ IF ok
           THEN /\ inbuf' = inbuf \o r
                /\ reply' = [reply EXCEPT ![c] = r]
                /\ exchanges' = exchanges + 1
                /\ pc' = [pc EXCEPT ![c] = "srr_read"]
                /\ UNCHANGED <<res, guardAt, locked>>
           ELSE /\ Finish(c, Res("Err"))
                /\ DropFnGuard(c)
                /\ UNCHANGED <<inbuf, reply, exchanges>>
    /\ UNCHANGED <<decVars, appVars, newVars, sock, op, arg, startedClosed, closedOk>>

\* let mut demz_bytes = BytesMut::new(); socket.read_exact(&mut demz_bytes)?;
\* Ok(match !demz_bytes.is_empty() { true => Some(..), false => None })
SrrRead(c) ==
    /\ pc[c] = "srr_read"
    /\ \E ok \in ReadOutcomes(BytesMutNewLen) :
        LET n == BytesMutNewLen
            demz_bytes == SubSeq(inbuf, 1, n)
        IN  /\ trace' = [trace EXCEPT ![c] =
                           Append(@, Ev("read", IF ok THEN demz_bytes ELSE <<>>, ok))]
            /\ IF ok
               THEN /\ inbuf' = SubSeq(inbuf, n + 1, Len(inbuf))
                    /\ Finish(c, IF demz_bytes # <<>>
                                 THEN [kind |-> "Some", payload |-> demz_bytes,
                                       monitors |-> <<>>]
                                 ELSE Res("None"))
               ELSE /\ Finish(c, Res("Err"))
                    /\ UNCHANGED inbuf
    /\ DropFnGuard(c)
    /\ UNCHANGED <<decVars, appVars, newVars, sock, op, arg, reply, startedClosed, closedOk, exchanges>>

\* close() is called
CallClose(c) ==
    /\ CanCall(c)
    /\ Begin(c, "close", ClientDisconnect)
    /\ pc' = [pc EXCEPT ![c] = "close_lock"]
    /\ UNCHANGED <<decVars, appVars, newVars, sock, inbuf, locked, guardAt, res, closedOk, exchanges>>

\* let socket = self.socket.lock().await;
\* self.send_commands(IpcCommands::ClientDisconnect as u32, Some(socket))
CloseLock(c) ==
    /\ pc[c] = "close_lock"
    /\ LockAvailable
    /\ locked' = TRUE
    /\ guardAt' = [guardAt EXCEPT ![c] = "fn"]
    /\ trace' = [trace EXCEPT ![c] = Append(@, Ev("lock", <<>>, TRUE))]
    /\ pc' = [pc EXCEPT ![c] = GuardOrLock(CloseGuard)]
    /\ UNCHANGED <<decVars, appVars, newVars, sock, inbuf, op, arg, res, reply, startedClosed,
                   closedOk, exchanges>>

\* socket.shutdown(std::net::Shutdown::Both)?; Ok(())
CloseShutdown(c) ==
    /\ pc[c] = "close_shutdown"
    /\ \E ok \in ShutdownOutcomes :
        /\ trace' = [trace EXCEPT ![c] = Append(@, Ev("shutdown", <<>>, ok))]
        /\ sock' = IF ok THEN "shutdown" ELSE sock
        /\ closedOk' = (closedOk \/ ok)
        /\ res' = [res EXCEPT ![c] = Res(IF ok THEN "Ok" ELSE "Err")]
    /\ pc' = [pc EXCEPT ![c] = "idle"]
    /\ DropFnGuard(c)
    /\ UNCHANGED <<decVars, appVars, newVars, inbuf, op, arg, reply, startedClosed, exchanges>>

\* get_monitors(): the capability test, then either the fullscreen fallback
\* or the call of send_recv_command(IpcCommands::GetMonitors)
CallGetMonitors(c) ==
    /\ CanCall(c)
    /\ Begin(c, "get_monitors", GetMonitors)
    /\ IF contains(capabilities, Multimonitor)
       THEN /\ exchanges < MaxExchanges
            /\ pc' = [pc EXCEPT ![c] = "srr_lock"]
            /\ UNCHANGED res
       ELSE /\ res' = [res EXCEPT ![c] =
                         [kind |-> "List", payload |-> <<>>,
                          monitors |-> <<fullscreen>>]]
            /\ UNCHANGED pc
    /\ UNCHANGED <<decVars, appVars, newVars, sock, inbuf, locked, guardAt, closedOk, exchanges>>

Step(c) ==
    \/ \E commands \in CommandWords, pass \in BOOLEAN : CallSendCommands(c, commands, pass)
    \/ ScLock(c)
    \/ ScWrite(c)
    \/ DropGuard(c)
    \/ \E command \in Commands : CallSendRecv(c, command)
    \/ SrrLock(c)
    \/ SrrWrite(c)
    \/ SrrRead(c)
    \/ CallClose(c)
    \/ CloseLock(c)
    \/ CloseShutdown(c)
    \/ CallGetMonitors(c)

Next ==
    \/ NewConnect
    \/ NewReadVersion
    \/ NewWriteVersion
    \/ NewCheckVersion
    \/ NewReadCaps
    \/ \E c \in Callers : Step(c)

Spec == Init /\ [][Next]_vars

\* the steps of caller c's running operation (the executor keeps polling a
\* future that can make progress)
Run(c) ==
    \/ ScLock(c)
    \/ ScWrite(c)
    \/ SrrLock(c)
    \/ SrrWrite(c)
    \/ SrrRead(c)
    \/ CloseLock(c)
    \/ CloseShutdown(c)

FairSpec == Spec /\ \A c \in Callers : WF_vars(Run(c))

(***************************************************************************)
(* Decoder runs: Monitor::from_bytes and from_bits_truncate on their own   *)
(***************************************************************************)
\* number of bytes that may follow a full record in a decoder input
MaxTrailing == 2

\* the bytes that follow the record
Trailing == [k \in 1..MaxTrailing |-> 200 + k]

\* the first n bytes of b
Prefix(b, n) == SubSeq(b, 1, IF n < Len(b) THEN n ELSE Len(b))

\* inputs of Monitor::from_bytes: an encoded record, cut short or followed by
\* further bytes
DecInputs ==
    { Prefix(MonitorBytes(i, p, x, 3, w, 1440) \o Trailing, n) :
        i \in {0, 1, -1}, p \in {0, 1, 255}, x \in {0, 1920}, w \in {0, 2560},
        n \in 0..(21 + MaxTrailing) }

\* inputs of from_bits_truncate: 0..7, ff ff ff ff, 80 00 00 01, 80 00 00 02
DecWords == (0..7) \cup {-1, -2147483647, -2147483646}

DecInit ==
    /\ IpcInit
    /\ AppDefault
    /\ viewGated = TRUE
    /\ decBytes \in DecInputs
    /\ decWord \in DecWords
    /\ decMon = <<>>
    /\ decCaps = <<>>

\* Monitor::from_bytes(&bytes)
DecodeMonitor ==
    /\ decMon = <<>>
    /\ decMon' = <<from_bytes(decBytes)>>
    /\ UNCHANGED <<ipcVars, appVars, decBytes, decWord, decCaps>>

\* IpcXabCapabilities::from_bits_truncate(u32::from_be_bytes(buf))
DecodeCaps ==
    /\ decCaps = <<>>
    /\ decCaps' = <<from_bits_truncate(from_be_bytes(to_be_bytes(decWord)))>>
    /\ UNCHANGED <<ipcVars, appVars, decBytes, decWord, decMon>>

DecNext ==
    \/ DecodeMonitor
    \/ DecodeCaps

DecSpec == DecInit /\ [][DecNext]_vars

(***************************************************************************)
(* App (main.rs): the messages update handles                              *)
(***************************************************************************)
\* handles IpcHandle::new may return in a run
MaxHandles == 2

\* tasks of one kind that may be in flight together
MaxTasks == 2

\* the messages the widgets of view() emit on the given page
view(p) ==
    IF p = "Connect" THEN {"Connect"}
    ELSE IF p = "Connected"
         THEN {"SelectFileForBackground", "SelectMonitor", "Disconnect"}
         ELSE {}

\* a widget message reaches update: from the current view when viewGated
Offered(m) == viewGated => m \in view(page)

\* App::set_page
set_page(p) ==
    /\ page' = p
    /\ user_error' = FALSE

\* a Disconnected handler that leaves the page as it is
DisconnectedPageKept == page

\* the page Message::Disconnected goes to
DisconnectedPage == "Connect"

AppInit ==
    /\ IpcInit
    /\ DecIdle
    /\ AppDefault
    /\ viewGated \in BOOLEAN

\* Message::Connect
MsgConnect ==
    /\ Offered("Connect")
    /\ lastMsg' = "Connect"
    /\ IF ipc_handle # 0
       THEN UNCHANGED <<page, user_error, newTasks>>
       ELSE /\ newTasks < MaxTasks
            /\ set_page("Connecting")
            /\ newTasks' = newTasks + 1
    /\ UNCHANGED <<ipcVars, decVars, ipc_handle, closeTasks, nHandles, closeInvoked,
                   viewGated>>

\* a task of IpcHandle::new ends with Err: Message::ConnectionFailed
MsgConnectionFailed ==
    /\ newTasks > 0
    /\ newTasks' = newTasks - 1
    /\ lastMsg' = "ConnectionFailed"
    /\ user_error' = TRUE
    /\ UNCHANGED <<ipcVars, decVars, page, ipc_handle, closeTasks, nHandles,
                   closeInvoked, viewGated>>

\* a task of IpcHandle::new ends with Ok(handle): Message::Connected
MsgConnected ==
    /\ newTasks > 0
    /\ nHandles < MaxHandles
    /\ newTasks' = newTasks - 1
    /\ nHandles' = nHandles + 1
    /\ lastMsg' = "Connected"
    /\ ipc_handle' = nHandles + 1
    /\ set_page("Connected")
    /\ UNCHANGED <<ipcVars, decVars, closeTasks, closeInvoked, viewGated>>

\* Message::Disconnect
MsgDisconnect ==
    /\ Offered("Disconnect")
    /\ lastMsg' = "Disconnect"
    /\ IF ipc_handle # 0
       THEN /\ closeTasks < MaxTasks
            /\ closeTasks' = closeTasks + 1
            /\ closeInvoked' = closeInvoked \cup {ipc_handle}
       ELSE UNCHANGED <<closeTasks, closeInvoked>>
    /\ UNCHANGED <<ipcVars, decVars, page, user_error, ipc_handle, newTasks, nHandles,
                   viewGated>>

\* a close() task ends, whatever its result: Message::Disconnected
MsgDisconnected ==
    /\ closeTasks > 0
    /\ closeTasks' = closeTasks - 1
    /\ lastMsg' = "Disconnected"
    /\ ipc_handle' = 0
    /\ set_page(DisconnectedPage)
    /\ UNCHANGED <<ipcVars, decVars, newTasks, nHandles, closeInvoked, viewGated>>

\* SelectMonitor, SelectFileForBackground, SelectedFileForBackground,
\* SendBackgroundOptions: neither page nor handle is touched
MsgOther(m) ==
    /\ m \in {"SelectMonitor", "SelectFileForBackground"} => Offered(m)
    /\ m = "SendBackgroundOptions" => ~viewGated
    /\ lastMsg' = m
    /\ UNCHANGED <<ipcVars, decVars, page, user_error, ipc_handle, newTasks, closeTasks,
                   nHandles, closeInvoked, viewGated>>

AppNext ==
    \/ MsgConnect
    \/ MsgConnectionFailed
    \/ MsgConnected
    \/ MsgDisconnect
    \/ MsgDisconnected
    \/ \E m \in {"SelectMonitor", "SelectFileForBackground",
                 "SelectedFileForBackground", "SendBackgroundOptions"} : MsgOther(m)

AppSpec == AppInit /\ [][AppNext]_vars

\* a task in flight ends; nothing makes the user press a button
AppFairSpec ==
    /\ AppSpec
    /\ WF_vars(MsgConnectionFailed \/ MsgConnected)
    /\ WF_vars(MsgDisconnected)

(***************************************************************************)
(* Properties                                                              *)
(***************************************************************************)
\* callers that own a MutexGuard of the socket
Holders == {c \in Callers : guardAt[c] # "none"}

\* caller d makes a transport call (write, read, shutdown) in this step
IoBy(d) ==
    /\ Len(trace'[d]) = Len(trace[d]) + 1
    /\ trace'[d][Len(trace'[d])].ev \in {"write", "read", "shutdown"}

\* caller c's operation has returned (or unwound)
Finished(c) == pc[c] \in {"idle", "panicked"}

LockWaiting(c) == pc[c] \in {"sc_lock", "srr_lock", "close_lock"}

\* C1: at most one caller has access to the socket at any time; every
\* transport call is made by the single guard owner; and between the command
\* write and the response read of a send_recv_command no other caller makes
\* a transport call.
C1_ExclusiveAccess ==
    /\ [](Cardinality(Holders) <= 1)
    /\ [][\A d \in Callers : IoBy(d) => (guardAt[d] = "fn" /\ Holders = {d})]_vars
    /\ [][\A c \in Callers : pc[c] = "srr_read" =>
            \A d \in Callers \ {c} : ~IoBy(d)]_vars

\* one caller is between its command write and its read while another waits
C1_Witness ==
    \E c \in Callers, d \in Callers :
        /\ c # d
        /\ pc[c] = "srr_read"
        /\ LockWaiting(d)
        /\ op[d] \in {"send_commands", "close", "get_monitors"}

\* C2: once the server version was read, new writes the bytes of
\* IPC_PROTO_VERSION exactly once, as its second transport call, before any
\* shutdown or capability read, whatever the version read; it writes
\* nothing else.
C2_VersionWrittenOnce ==
    version # <<>> =>
        /\ newTrace[1].ev = "read" /\ newTrace[1].ok
        /\ pcNew = "write_version" => Len(newTrace) = 1
        /\ pcNew # "write_version" =>
            /\ Len(newTrace) >= 2
            /\ newTrace[2].ev = "write"
            /\ newTrace[2].bytes = <<0, 0, 0, 1>>
            /\ \A i \in 1..Len(newTrace) : newTrace[i].ev = "write" => i = 2

\* the server announced version 2 and the client has written its own version
C2_Witness ==
    /\ pcNew = "done"
    /\ version = <<2>>
    /\ Len(newTrace) >= 2
    /\ newTrace[2].ok

\* C3: when the version read differs from IPC_PROTO_VERSION, new never
\* reaches the capability read; when it has returned, it returned an error,
\* the stream is closed (dropped), exactly one read was made, and, the
\* version write having succeeded, shutdown(Both) was called right after it.
C3_MismatchFails ==
    (version # <<>> /\ version[1] # 1) =>
        /\ pcNew # "read_caps"
        /\ newResult # "Ok"
        /\ capabilities = 0
        /\ \A c \in Callers : op[c] = "none"
        /\ pcNew = "done" =>
            /\ newResult \in {"ErrWriteVersion", "ErrMismatch", "ErrShutdown"}
            /\ sock = "dropped"
            /\ \A i \in 1..Len(newTrace) : newTrace[i].ev = "read" => i = 1
            /\ newTrace[2].ok =>
                (Len(newTrace) = 3 /\ newTrace[3].ev = "shutdown")

\* a mismatching server (version -1) was turned away after a successful shutdown
C3_Witness ==
    /\ pcNew = "done"
    /\ version = <<-1>>
    /\ newResult = "ErrMismatch"

\* C4: a handle exists only after connect, version read, version write, the
\* comparison and the capability read succeeded in this order, and it then
\* carries the known bits of the capability word read last; any failed step
\* ends new with an error and no handle.
C4_HandleOnlyAfterHandshake ==
    /\ newResult = "Ok" =>
        /\ pcNew = "done"
        /\ sock \in {"open", "shutdown"}
        /\ version = <<1>>
        /\ Len(newTrace) = 3
        /\ newTrace[1].ev = "read" /\ newTrace[1].ok
        /\ newTrace[2].ev = "write" /\ newTrace[2].ok
        /\ newTrace[3].ev = "read" /\ newTrace[3].ok
        /\ capabilities = newTrace[3].bytes[4] % 4
    /\ (\E i \in 1..Len(newTrace) : ~newTrace[i].ok) =>
        (pcNew = "done" /\ newResult \notin {"Ok", "none"})
    /\ (pcNew = "done" /\ newResult # "Ok") =>
        (sock \in {"none", "dropped"} /\ capabilities = 0)
    /\ (\E c \in Callers : op[c] # "none") => newResult = "Ok"

\* a handle built from capability word 6: the unknown bit 2 is not carried
C4_Witness ==
    /\ newResult = "Ok"
    /\ newTrace[3].bytes = <<0, 0, 0, 6>>
    /\ capabilities = 2

\* C5: a finished send_recv_command whose command word was written returns
\* 'present' with exactly the bytes the server sent for the exchange when
\* there are any, and 'absent' only when the server sent none.
C5_ReplyReturned ==
    \A c \in Callers :
        (op[c] = "send_recv_command" /\ Finished(c) /\ res[c].kind \in {"Some", "None"}) =>
            /\ reply[c] # <<>> =>
                (res[c].kind = "Some" /\ res[c].payload = reply[c])
            /\ res[c].kind = "None" => reply[c] = <<>>

\* C6: without Multimonitor (bit 0) in the capability set, get_monitors has
\* returned at once with exactly the fullscreen record, having made no
\* transport call and no lock acquisition, and holds no guard from it.
C6_FullscreenFallback ==
    \A c \in Callers :
        (op[c] = "get_monitors" /\ capabilities % 2 = 0) =>
            /\ pc[c] = "idle"
            /\ res[c].kind = "List"
            /\ res[c].monitors =
                 << [index |-> 0, primary |-> TRUE, x |-> 0, y |-> 0,
                     width |-> 0, height |-> 0] >>
            /\ trace[c] = <<>>
            /\ reply[c] = <<>>

\* the fallback was returned while the other caller held the lock
C6_Witness ==
    \E c \in Callers, d \in Callers :
        /\ c # d
        /\ op[c] = "get_monitors"
        /\ capabilities = 2
        /\ res[c].kind = "List"
        /\ guardAt[d] # "none"

\* the GetMonitors exchange of a finished get_monitors failed or was empty
GmExchangeBad(c) ==
    /\ trace[c] # <<>>
    /\ \/ ~trace[c][Len(trace[c])].ok
       \/ (trace[c][Len(trace[c])].ev = "read" /\ reply[c] = <<>>)

\* C7: with Multimonitor present, a get_monitors whose exchange failed or
\* brought an empty payload ends with an error result: it does not abort and
\* returns no monitor list.
C7_ErrorNotAbort ==
    \A c \in Callers :
        (op[c] = "get_monitors" /\ capabilities % 2 = 1 /\ Finished(c)
            /\ GmExchangeBad(c)) =>
            res[c].kind = "Err"

\* C8: with Multimonitor present and a payload of 21*N + R bytes (N >= 1),
\* get_monitors returns N records, the i-th decoded from its 21 bytes, in
\* payload order.
C8_RecordsDecoded ==
    \A c \in Callers :
        (op[c] = "get_monitors" /\ capabilities % 2 = 1 /\ Finished(c)
            /\ trace[c] # <<>> /\ trace[c][Len(trace[c])].ev = "read"
            /\ Len(reply[c]) >= 21) =>
            /\ res[c].kind = "List"
            /\ Len(res[c].monitors) = Len(reply[c]) \div 21
            /\ \A i \in 1..Len(res[c].monitors) :
                 res[c].monitors[i] =
                     from_bytes(SubSeq(reply[c], 21 * (i - 1) + 1, 21 * i)).mon

\* the lock/transport calls of a close(): a prefix of lock, write of word 3,
\* shutdown, each made only after the one before succeeded
CloseTraceOk(t) ==
    /\ Len(t) <= 3
    /\ Len(t) >= 1 => t[1].ev = "lock"
    /\ Len(t) >= 2 => (t[2].ev = "write" /\ t[2].bytes = <<0, 0, 0, 3>>)
    /\ Len(t) >= 3 => (t[2].ok /\ t[3].ev = "shutdown")

\* C9: close() locks once, writes ClientDisconnect once under that guard and
\* then shuts the stream down; it never waits for the lock it holds; while it
\* is between the write and the shutdown no other caller makes a transport
\* call; when it returns the guard is gone; and once it holds the lock it
\* does return.
C9_CloseSequence ==
    /\ [](\A c \in Callers : op[c] = "close" =>
            /\ pc[c] # "sc_lock"
            /\ CloseTraceOk(trace[c])
            /\ pc[c] \in {"sc_write", "close_shutdown"} =>
                (guardAt[c] = "fn" /\ Holders = {c} /\ locked)
            /\ pc[c] = "idle" =>
                /\ guardAt[c] = "none"
                /\ Len(trace[c]) >= 2
                /\ res[c].kind = "Ok" =>
                    (Len(trace[c]) = 3 /\ trace[c][3].ok /\ sock = "shutdown"))
    /\ [][\A c \in Callers : (op[c] = "close" /\ pc[c] = "close_shutdown") =>
            \A d \in Callers \ {c} : ~IoBy(d)]_vars
    /\ \A c \in Callers :
         (op[c] = "close" /\ guardAt[c] = "fn") ~> (op[c] = "close" /\ pc[c] = "idle")

\* a close() returned Ok while the other caller was waiting for the lock
C9_Witness ==
    \E c \in Callers, d \in Callers :
        /\ c # d
        /\ op[c] = "close" /\ pc[c] = "idle" /\ res[c].kind = "Ok"
        /\ LockWaiting(d)

\* C10: an operation begun after a close() returned Ok ends with an error
\* and delivers no command word.
C10_ClosedRejects ==
    \A c \in Callers :
        (startedClosed[c] /\ Finished(c)
            /\ op[c] \in {"send_commands", "send_recv_command", "get_monitors"}) =>
            /\ res[c].kind = "Err"
            /\ \A i \in 1..Len(trace[c]) : ~(trace[c][i].ev = "write" /\ trace[c][i].ok)

\* C11: a close() begun after a close() returned Ok locks, fails at the
\* write of the disconnect word and returns that error without calling
\* shutdown; the guard is released when it returns, and once it holds the
\* lock it does return.
C11_SecondCloseFails ==
    /\ [](\A c \in Callers : (op[c] = "close" /\ startedClosed[c]) =>
            /\ pc[c] # "close_shutdown"
            /\ pc[c] = "idle" =>
                /\ res[c].kind = "Err"
                /\ guardAt[c] = "none"
                /\ Len(trace[c]) = 2
                /\ trace[c][1].ev = "lock"
                /\ trace[c][2].ev = "write" /\ ~trace[c][2].ok)
    /\ \A c \in Callers :
         (op[c] = "close" /\ startedClosed[c] /\ guardAt[c] = "fn")
             ~> (op[c] = "close" /\ pc[c] = "idle")

\* a second close() has returned its error
C11_Witness ==
    \E c \in Callers :
        /\ op[c] = "close" /\ startedClosed[c] /\ pc[c] = "idle"
        /\ res[c].kind = "Err"

\* C12: decoding a capability word never fails and the decoded set depends
\* on bit 0 of the word alone: it is the decoding of the word with every
\* other bit cleared (Multimonitor or nothing), so word 3 decodes as word 1.
C12_OnlyBitZeroKept ==
    decCaps # <<>> => decCaps[1] = from_bits_truncate(decWord % 2)

\* C13: the word of NoneInvalid (ff ff ff ff) is never written to the stream.
C13_NoneInvalidNeverSent ==
    \A c \in Callers : \A i \in 1..Len(trace[c]) :
        trace[c][i].ev = "write" => trace[c][i].bytes # <<255, 255, 255, 255>>

\* the command word an operation of caller c writes on its own initiative
OwnWord(c) ==
    IF op[c] = "close" THEN <<0, 0, 0, 3>>
    ELSE IF op[c] = "get_monitors" THEN <<0, 0, 0, 9>>
    ELSE to_be_bytes(arg[c])

\* C14: no operation on a handle changes its capability set, and the only
\* word an operation writes is its own (the caller's argument, 3 for close,
\* 9 for get_monitors), never GetCapabilities (11).
C14_CapabilitiesFrozen ==
    /\ [][HandleOpen => capabilities' = capabilities]_vars
    /\ [](\A c \in Callers : \A i \in 1..Len(trace[c]) :
            trace[c][i].ev = "write" =>
                (trace[c][i].bytes = OwnWord(c) /\ trace[c][i].bytes # <<0, 0, 0, 11>>))

\* get_monitors has sent its query and a close() has returned on a handle
\* that still carries Multimonitor
C14_Witness ==
    \E c \in Callers, d \in Callers :
        /\ capabilities = 1
        /\ op[c] = "get_monitors" /\ Finished(c) /\ Len(trace[c]) >= 2 /\ trace[c][2].ok
        /\ op[d] = "close" /\ pc[d] = "idle" /\ res[d].kind = "Ok"

\* caller c waits for the lock while holding the guard itself
SelfDeadlocked(c) == guardAt[c] = "caller" /\ LockWaiting(c)

\* C16: a caller that calls send_commands without its token, send_recv_command
\* or close while holding the token stays at the lock forever with nothing
\* written; a send_commands given the token goes straight to the write with
\* no lock acquisition and returns.
C16_TokenDiscipline ==
    /\ [][\A c \in Callers : SelfDeadlocked(c) =>
            (pc'[c] = pc[c] /\ guardAt'[c] = guardAt[c] /\ trace'[c] = <<>>)]_vars
    /\ [](\A c \in Callers :
            (op[c] = "send_commands" /\ trace[c] # <<>> /\ trace[c][1].ev = "write") =>
                (Len(trace[c]) = 1 /\ pc[c] = "idle"))
    /\ [](\A c \in Callers :
            (op[c] = "send_commands" /\ guardAt[c] = "fn") =>
                (pc[c] = "sc_write" /\ Holders = {c} /\ Len(trace[c]) <= 1))
    /\ \A c \in Callers :
         (op[c] = "send_commands" /\ guardAt[c] = "fn") ~> (pc[c] = "idle")

\* one caller is deadlocked in close() on its own token after another of its
\* calls passed the token on
C16_Witness ==
    \E c \in Callers :
        /\ SelfDeadlocked(c)
        /\ op[c] = "close"
        /\ res[c].kind = "OkGuard"

\* C17: when send_commands, send_recv_command or close has returned an
\* error, the caller owns no guard and the lock is held only if another
\* caller owns one, so a waiting caller can acquire it.
C17_ErrorReleasesLock ==
    \A c \in Callers :
        (op[c] \in {"send_commands", "send_recv_command", "close"}
            /\ pc[c] = "idle" /\ res[c].kind = "Err") =>
            /\ guardAt[c] = "none"
            /\ locked => \E d \in Callers \ {c} : guardAt[d] # "none"
            /\ (~locked /\ \E d \in Callers : LockWaiting(d) /\ guardAt[d] = "none")
                  => \E d \in Callers :
                        ENABLED (ScLock(d) \/ SrrLock(d) \/ CloseLock(d))

\* after a failed send_recv_command of one caller the other caller has
\* acquired the lock
C17_Witness ==
    \E c \in Callers, d \in Callers :
        /\ c # d
        /\ op[c] = "send_recv_command" /\ pc[c] = "idle" /\ res[c].kind = "Err"
        /\ guardAt[d] = "fn"
        /\ Len(trace[d]) = 1

\* big-endian value of the 4 bytes of b that start at offset o (from 0)
BeAt(b, o) ==
    (IF b[o + 1] >= 128 THEN b[o + 1] - 256 ELSE b[o + 1]) * 16777216
        + b[o + 2] * 65536 + b[o + 3] * 256 + b[o + 4]

\* C15: Monitor::from_bytes fails exactly on inputs shorter than 21 bytes;
\* on 21 bytes or more it yields the record with index from offset 0, the
\* primary flag from offset 4 and x, y, width, height from offsets 5, 9, 13,
\* 17, whatever follows the 21st byte.
C15_FromBytes ==
    decMon # <<>> =>
        /\ decMon[1].ok <=> Len(decBytes) >= 21
        /\ decMon[1].ok =>
            decMon[1].mon =
                [index |-> BeAt(decBytes, 0),
                 primary |-> decBytes[5] # 0,
                 x |-> BeAt(decBytes, 5),
                 y |-> BeAt(decBytes, 9),
                 width |-> BeAt(decBytes, 13),
                 height |-> BeAt(decBytes, 17)]
        /\ decMon[1].ok => decMon[1] = from_bytes(SubSeq(decBytes, 1, 21))

\* a record with index -1 and flag byte 255, followed by two more bytes, was
\* decoded
C15_Witness ==
    /\ decMon # <<>>
    /\ Len(decBytes) = 23
    /\ decMon[1].ok
    /\ decMon[1].mon.index = -1
    /\ decMon[1].mon.primary
    /\ decMon[1].mon.width = 2560

\* C18: every handle IpcHandle::new has returned is the one in
\* App.ipc_handle or has had a close() task started for it (stated for the
\* runs whose Connect/Disconnect messages come from the buttons of the view).
C18_NoHandleLost ==
    viewGated =>
        \A h \in 1..nHandles : h = ipc_handle \/ h \in closeInvoked

\* C19: the page is Connected exactly when ipc_handle holds a handle.
C19_PageIffHandle == (page = "Connected") <=> (ipc_handle # 0)

\* with messages in any order, a second handle is stored on the Connected
\* page while a close() task is in flight
C19_Witness ==
    /\ ~viewGated
    /\ page = "Connected"
    /\ ipc_handle = 2
    /\ closeTasks > 0

\* C20: after ConnectionFailed was handled the App comes to a page whose
\* view offers Connect (the Connect page); it does not stay on Connecting.
C20_BackToConnect ==
    (viewGated /\ lastMsg = "ConnectionFailed") ~>
        (page = "Connect" /\ "Connect" \in view(page))
====
